---- MODULE Spec2Model ----
(***************************************************************************)
(* A model of app/main.py: the in-memory item store, the Prometheus        *)
(* metrics it keeps, the CRUD handlers and metrics_middleware.             *)
(*                                                                         *)
(* A request goes through three steps, as the middleware's code does:      *)
(*   MiddlewarePre   lines 112-121 (correlation id, request_start log)     *)
(*   one handler     `await call_next(request)`; the handler body has no   *)
(*                   await in it, so it is one atomic step                 *)
(*   MiddlewareSuccess / MiddlewareFailure   the try body after call_next  *)
(*                   returned, or the except branch after it raised        *)
(* Requests interleave at the await only.                                  *)
(***************************************************************************)
EXTENDS Integers, Sequences, FiniteSets, Bags, TLC

\* ------------------------------------------------------------------ bounds
\* Requests the clients send during a run.
MaxRequests == 2
\* Ticks the wall clock advances after startup.
ClockSpan == 1
\* Clock ticks per second: datetime.isoformat() drops the fraction when it is 0.
TicksPerSecond == 2

\* --------------------------------------------------------------- constants
HTTP_200_OK == 200
HTTP_201_CREATED == 201
HTTP_204_NO_CONTENT == 204
HTTP_404_NOT_FOUND == 404
HTTP_422_UNPROCESSABLE == 422
HTTP_500_INTERNAL == 500

VARIABLES items_db, ITEMS_COUNT, REQUEST_COUNT, REQUEST_DURATION, ERROR_COUNT,
          clock, uuid_count, reqs

vars == <<items_db, ITEMS_COUNT, REQUEST_COUNT, REQUEST_DURATION, ERROR_COUNT,
          clock, uuid_count, reqs>>

Requests == 1..MaxRequests

\* ------------------------------------------------------------------ values
\* A Python float: a finite amount (in cents) or a non-finite value (inf/nan),
\* which json.loads yields for 1e999 and pydantic's float accepts.
Float(c) == [finite |-> TRUE, cents |-> c]
FloatInf == [finite |-> FALSE, cents |-> 0]

\* A JSON value of a request body, or its absence.
JAbsent == [type |-> "absent", str |-> "", num |-> Float(0)]
JStr(s) == [type |-> "string", str |-> s, num |-> Float(0)]
JNum(f) == [type |-> "number", str |-> "", num |-> f]
JArray == [type |-> "array", str |-> "", num |-> Float(0)]

\* str(uuid.uuid4()): the n-th value drawn; no value is drawn twice.
UuidPool == <<"uuid-1", "uuid-2", "uuid-3", "uuid-4", "uuid-5", "uuid-6",
              "uuid-7", "uuid-8", "uuid-9", "uuid-10">>
uuid4(n) == UuidPool[n]

\* datetime.isoformat(): the seconds, then the fraction unless it is zero.
isoformat(t) ==
    IF t % TicksPerSecond = 0 THEN <<t \div TicksPerSecond>>
    ELSE <<t \div TicksPerSecond, t % TicksPerSecond>>

\* The order of two isoformat() results as strings (a prefix sorts first).
IsoLeq(a, b) ==
    \/ a[1] < b[1]
    \/ /\ a[1] = b[1]
       /\ \/ Len(a) = 1
          \/ Len(a) = 2 /\ Len(b) = 2 /\ a[2] <= b[2]

\* ------------------------------------------------------------------ models
\* A variant of ItemCreateValid in which price is optional.
ItemCreateValid_PriceOptional(body) ==
    /\ body.name.type = "string"
    /\ body.description.type \in {"absent", "string"}
    /\ body.price.type \in {"absent", "number"}

\* ItemBase / ItemCreate: name is a required str, description a str that
\* defaults to "", price a required float. Nothing constrains the length of
\* name. (The bodies drawn below hold no string that parses as a number.)
ItemCreateValid(body) ==
    /\ body.name.type = "string"
    /\ body.description.type \in {"absent", "string"}
    /\ body.price.type = "number"

\* The validated ItemCreate object of a body.
ItemCreate(body) ==
    [name |-> body.name.str,
     description |-> IF body.description.type = "absent" THEN ""
                     ELSE body.description.str,
     price |-> body.price.num]

\* ItemResponse(**item): the six fields of a stored record.
ItemResponse(item) ==
    [id |-> item.id, name |-> item.name, description |-> item.description,
     price |-> item.price, created_at |-> item.created_at,
     updated_at |-> item.updated_at]

\* The request bodies the clients send with POST /items:
\*   {"name": "Widget", "price": 9.99}
\*   {"name": "", "description": "Gizmo", "price": 19.99}
\*   {"name": "Widget", "description": "Gizmo"}
\*   {"name": "Widget", "price": 1e999}
PostBodies ==
    { [name |-> JStr("Widget"), description |-> JAbsent, price |-> JNum(Float(999))],
      [name |-> JStr(""), description |-> JStr("Gizmo"), price |-> JNum(Float(1999))],
      [name |-> JStr("Widget"), description |-> JStr("Gizmo"), price |-> JAbsent],
      [name |-> JStr("Widget"), description |-> JAbsent, price |-> JNum(FloatInf)] }

\* The request bodies the clients send with PUT /items/{item_id}:
\*   {"name": "Widget", "price": 9.99}
\*   {"name": ["Widget"], "description": "Gizmo", "price": "abc"}
PutBodies ==
    { [name |-> JStr("Widget"), description |-> JAbsent, price |-> JNum(Float(999))],
      [name |-> JArray, description |-> JStr("Gizmo"), price |-> JStr("abc")] }

NoBody == [name |-> JAbsent, description |-> JAbsent, price |-> JAbsent]

\* ------------------------------------------------------------------ lifespan
sample_items ==
    << [id |-> "1", name |-> "Laptop", description |-> "Gaming laptop",
        price |-> Float(129999)],
       [id |-> "2", name |-> "Mouse", description |-> "Wireless mouse",
        price |-> Float(4999)],
       [id |-> "3", name |-> "Keyboard", description |-> "Mechanical keyboard",
        price |-> Float(8999)] >>

SeedIds == {sample_items[i].id : i \in DOMAIN sample_items}

\* The clock when lifespan runs: the last tick of a second. Startup is over
\* within that tick.
StartupClock == TicksPerSecond - 1
MaxClock == StartupClock + ClockSpan

\* The record lifespan stores for a sample item: created_at is read from the
\* clock first, updated_at second.
SeedRecord(item, first_now, second_now) ==
    [id |-> item.id, name |-> item.name,
     description |-> item.description, price |-> item.price,
     created_at |-> isoformat(first_now),
     updated_at |-> isoformat(second_now)]

\* ------------------------------------------------------------------ requests
\* What a response carries before any handler has produced one.
NoContent == [kind |-> "none"]

\* The headers a JSON response of the framework starts with.
JsonHeaders == ("content-type" :> "application/json")

IdleRequest ==
    [pc |-> "idle", method |-> "", route |-> "", item_id |-> "", body |-> NoBody,
     request_id |-> "", start_time |-> 0, log |-> <<>>,
     status |-> 0, content |-> NoContent, headers |-> JsonHeaders,
     exc |-> "", raised_out |-> FALSE]

\* request.url.path
UrlPath(q) == IF q.route = "/items/{item_id}" THEN "/items/" \o q.item_id ELSE q.route

\* The ids that DELETE has removed so far (the 204 answers).
DeletedIds ==
    {reqs[r].item_id : r \in {x \in Requests :
        /\ reqs[x].method = "DELETE"
        /\ reqs[x].pc \in {"returned", "done"}
        /\ reqs[x].status = HTTP_204_NO_CONTENT}}

\* The ids a client asks for: the first sample item or a created item,
\* stored or deleted since, or an id that never existed.
TargetIds == (((DOMAIN items_db) \cup DeletedIds) \ {"2", "3"}) \cup {"no-such-id"}

\* The requests a client can send now.
Arrivals ==
    {[method |-> "GET", route |-> rt, item_id |-> "", body |-> NoBody] :
        rt \in {"/", "/health", "/metrics", "/items"}}
    \cup {[method |-> "POST", route |-> "/items", item_id |-> "", body |-> b] :
        b \in PostBodies}
    \cup {[method |-> m, route |-> "/items/{item_id}", item_id |-> id, body |-> NoBody] :
        m \in {"GET", "DELETE"}, id \in TargetIds}
    \cup {[method |-> "PUT", route |-> "/items/{item_id}", item_id |-> id, body |-> b] :
        id \in TargetIds, b \in PutBodies}

\* ------------------------------------------------------------------ responses
\* json.dumps(..., allow_nan=False) of the framework's JSONResponse: a body
\* holding a non-finite float cannot be rendered.
Renderable(content) ==
    CASE content.kind = "item" -> content.item.price.finite
      [] content.kind = "items" ->
            \A i \in DOMAIN content.items : content.items[i].price.finite
      [] OTHER -> TRUE

\* call_next returns a response.
Returned(q, status, content) ==
    [q EXCEPT !.pc = "returned", !.status = status, !.content = content]

\* call_next raises an exception no handler converts to a response.
Raised(q, type) == [q EXCEPT !.pc = "raised", !.exc = type]

\* The handler returns a value, which the framework renders as JSON.
JSONResponse(q, status, content) ==
    IF Renderable(content) THEN Returned(q, status, content)
    ELSE Raised(q, "ValueError")

\* raise HTTPException(status_code=404, detail="Item not found")
ItemNotFound == [kind |-> "detail", detail |-> "Item not found"]

\* The handler's own log line, after the lines the request has logged so far.
Logged(q, event) == [q EXCEPT !.log = Append(@, event)]

\* The position of a key in the dict's order: the samples as lifespan inserts
\* them, then the created items as their ids were drawn.
InsertionRank(id) ==
    IF id \in SeedIds
    THEN CHOOSE i \in DOMAIN sample_items : sample_items[i].id = id
    ELSE Len(sample_items) + (CHOOSE n \in DOMAIN UuidPool : UuidPool[n] = id)

\* items_db.values(), each as an ItemResponse.
Values(db) ==
    LET ids == DOMAIN db
        pos(id) == 1 + Cardinality({k \in ids : InsertionRank(k) < InsertionRank(id)})
    IN [i \in 1..Cardinality(ids) |->
            ItemResponse(db[CHOOSE k \in ids : pos(k) = i])]

Waiting(r, method, route) ==
    /\ reqs[r].pc = "call_next"
    /\ reqs[r].method = method
    /\ reqs[r].route = route

StoreUnchanged == UNCHANGED <<items_db, ITEMS_COUNT>>
MetricsUnchanged == UNCHANGED <<REQUEST_COUNT, REQUEST_DURATION, ERROR_COUNT>>

\* ------------------------------------------------------------------ middleware
\* metrics_middleware up to `await call_next(request)`.
MiddlewarePre(r) ==
    /\ reqs[r].pc = "idle"
    /\ IF r = 1 THEN TRUE ELSE reqs[r - 1].pc # "idle"
    /\ \E a \in Arrivals :
        reqs' = [reqs EXCEPT ![r] =
                    [@ EXCEPT !.pc = "call_next", !.method = a.method,
                              !.route = a.route, !.item_id = a.item_id,
                              !.body = a.body, !.start_time = clock,
                              !.request_id = uuid4(uuid_count + 1),
                              !.log = <<"request_start">>]]
    /\ uuid_count' = uuid_count + 1
    /\ UNCHANGED clock
    /\ StoreUnchanged
    /\ MetricsUnchanged

\* The headers the middleware sets on the response.
MiddlewareHeaders(q, process_time) ==
    ("X-Request-ID" :> q.request_id)
    @@ ("X-Response-Time" :> process_time)
    @@ ("X-Content-Type-Options" :> "nosniff")
    @@ ("X-Frame-Options" :> "DENY")
    @@ ("X-XSS-Protection" :> "1; mode=block")
    @@ ("Referrer-Policy" :> "strict-origin-when-cross-origin")
    @@ ("Permissions-Policy" :> "geolocation=(), microphone=()")

\* The try body after call_next has returned.
MiddlewareSuccess(r) ==
    LET q == reqs[r]
        process_time == clock - q.start_time
    IN /\ q.pc = "returned"
       /\ REQUEST_COUNT' =
            REQUEST_COUNT (+) SetToBag({<<q.method, UrlPath(q), q.status>>})
       /\ REQUEST_DURATION' =
            REQUEST_DURATION (+) SetToBag({<<q.method, UrlPath(q)>>})
       /\ reqs' = [reqs EXCEPT ![r] =
                    [@ EXCEPT !.pc = "done",
                              !.log = Append(@, "request_complete"),
                              !.headers = MiddlewareHeaders(q, process_time) @@ @]]
       /\ UNCHANGED <<ERROR_COUNT, clock, uuid_count>>
       /\ StoreUnchanged

\* What the client gets when the exception leaves the application: the
\* server's plain 500 answer, which the middleware never saw.
ServerErrorHeaders == ("content-type" :> "text/plain; charset=utf-8")
ServerErrorContent == [kind |-> "text", text |-> "Internal Server Error"]

\* A variant of MiddlewareFailure that counts the failed request in
\* REQUEST_COUNT as well.
MiddlewareFailure_CountsRequest(r) ==
    LET q == reqs[r]
    IN /\ q.pc = "raised"
       /\ ERROR_COUNT' = ERROR_COUNT (+) SetToBag({q.exc})
       /\ REQUEST_COUNT' =
            REQUEST_COUNT (+) SetToBag({<<q.method, UrlPath(q), 500>>})
       /\ reqs' = [reqs EXCEPT ![r] =
                    [@ EXCEPT !.pc = "done",
                              !.log = Append(@, "error"),
                              !.raised_out = TRUE,
                              !.status = 500,
                              !.content = [kind |-> "text",
                                           text |-> "Internal Server Error"],
                              !.headers = ("content-type" :> "text/plain; charset=utf-8")]]
       /\ UNCHANGED <<REQUEST_DURATION, clock, uuid_count>>
       /\ StoreUnchanged

\* The except branch: count, log, re-raise.
MiddlewareFailure(r) ==
    LET q == reqs[r]
    IN /\ q.pc = "raised"
       /\ ERROR_COUNT' = ERROR_COUNT (+) SetToBag({q.exc})
       /\ reqs' = [reqs EXCEPT ![r] =
                    [@ EXCEPT !.pc = "done",
                              !.log = Append(@, "error"),
                              !.raised_out = TRUE,
                              !.status = HTTP_500_INTERNAL,
                              !.content = ServerErrorContent,
                              !.headers = ServerErrorHeaders]]
       /\ UNCHANGED <<REQUEST_COUNT, REQUEST_DURATION, clock, uuid_count>>
       /\ StoreUnchanged

\* ------------------------------------------------------------------ handlers
root(r) ==
    /\ Waiting(r, "GET", "/")
    /\ reqs' = [reqs EXCEPT ![r] =
                 JSONResponse(@, HTTP_200_OK,
                    [kind |-> "service", service |-> "DevOps Backend API",
                     version |-> "1.0.0", status |-> "healthy"])]
    /\ UNCHANGED <<clock, uuid_count>>
    /\ StoreUnchanged
    /\ MetricsUnchanged

\* startup_time = time.time() at import, before lifespan runs.
startup_time == StartupClock

health(r) ==
    /\ Waiting(r, "GET", "/health")
    /\ reqs' = [reqs EXCEPT ![r] =
                 JSONResponse(@, HTTP_200_OK,
                    [kind |-> "health", status |-> "healthy", timestamp |-> clock,
                     uptime |-> clock - startup_time])]
    /\ UNCHANGED <<clock, uuid_count>>
    /\ StoreUnchanged
    /\ MetricsUnchanged

\* generate_latest(): every registered metric with its current samples.
metrics(r) ==
    /\ Waiting(r, "GET", "/metrics")
    /\ reqs' = [reqs EXCEPT ![r] =
                 [Returned(@, HTTP_200_OK,
                    [kind |-> "exposition",
                     http_requests_total |-> REQUEST_COUNT,
                     http_request_duration_seconds |-> REQUEST_DURATION,
                     http_errors_total |-> ERROR_COUNT,
                     items_total |-> ITEMS_COUNT])
                  EXCEPT !.headers = ("content-type" :> "text/plain; version=0.0.4")]]
    /\ UNCHANGED <<clock, uuid_count>>
    /\ StoreUnchanged
    /\ MetricsUnchanged

list_items(r) ==
    /\ Waiting(r, "GET", "/items")
    /\ reqs' = [reqs EXCEPT ![r] =
                 JSONResponse(@, HTTP_200_OK,
                    [kind |-> "items", items |-> Values(items_db)])]
    /\ UNCHANGED <<clock, uuid_count>>
    /\ StoreUnchanged
    /\ MetricsUnchanged

get_item(r) ==
    /\ Waiting(r, "GET", "/items/{item_id}")
    /\ reqs' = [reqs EXCEPT ![r] =
                 IF @.item_id \notin DOMAIN items_db
                 THEN Returned(@, HTTP_404_NOT_FOUND, ItemNotFound)
                 ELSE JSONResponse(@, HTTP_200_OK,
                        [kind |-> "item",
                         item |-> ItemResponse(items_db[@.item_id])])]
    /\ UNCHANGED <<clock, uuid_count>>
    /\ StoreUnchanged
    /\ MetricsUnchanged

\* The body of POST and PUT fails ItemCreate's validation: the framework
\* answers 422 and the handler is not called.
RequestValidationError(r) ==
    /\ \/ Waiting(r, "POST", "/items")
       \/ Waiting(r, "PUT", "/items/{item_id}")
    /\ ~ItemCreateValid(reqs[r].body)
    /\ reqs' = [reqs EXCEPT ![r] =
                 Returned(@, HTTP_422_UNPROCESSABLE,
                    [kind |-> "detail", detail |-> "validation error"])]
    /\ UNCHANGED <<clock, uuid_count>>
    /\ StoreUnchanged
    /\ MetricsUnchanged

\* A variant of NewItem that takes the record's id from the body's name.
NewItem_IdFromName(item_id, item, first_now, second_now) ==
    [id |-> item.name, name |-> item.name, description |-> item.description,
     price |-> item.price, created_at |-> isoformat(first_now),
     updated_at |-> isoformat(second_now)]

\* new_item of create_item: created_at is read from the clock first.
NewItem(item_id, item, first_now, second_now) ==
    [id |-> item_id, name |-> item.name, description |-> item.description,
     price |-> item.price, created_at |-> isoformat(first_now),
     updated_at |-> isoformat(second_now)]

\* ITEMS_COUNT.inc()
GaugeInc(g) == g + 1

\* A variant of GaugeDec that leaves the gauge as it is.
GaugeDec_Forgotten(g) == g

\* ITEMS_COUNT.dec()
GaugeDec(g) == g - 1

create_item(r) ==
    /\ Waiting(r, "POST", "/items")
    /\ ItemCreateValid(reqs[r].body)
    /\ \E elapsed \in {0, 1} :
        LET item_id == uuid4(uuid_count + 1)
            first_now == clock
            second_now == first_now + elapsed
            new_item == NewItem(item_id, ItemCreate(reqs[r].body),
                                first_now, second_now)
        IN /\ second_now <= MaxClock
           /\ items_db' = [k \in (DOMAIN items_db) \cup {item_id} |->
                             IF k = item_id THEN new_item ELSE items_db[k]]
           /\ ITEMS_COUNT' = GaugeInc(ITEMS_COUNT)
           /\ reqs' = [reqs EXCEPT ![r] =
                        JSONResponse(Logged(@, "item_created"), HTTP_201_CREATED,
                           [kind |-> "item", item |-> ItemResponse(new_item)])]
           /\ clock' = second_now
    /\ uuid_count' = uuid_count + 1
    /\ MetricsUnchanged

\* A variant of UpdatedItem that stamps created_at again.
UpdatedItem_Restamped(old, item_id, item, now) ==
    [id |-> item_id, name |-> item.name, description |-> item.description,
     price |-> item.price, created_at |-> isoformat(now),
     updated_at |-> isoformat(now)]

\* A variant of UpdatedItem that keeps the stored description when the body
\* gives none (`item.description or old["description"]`).
UpdatedItem_PartialPatch(old, item_id, item, now) ==
    [id |-> item_id, name |-> item.name,
     description |-> IF item.description = "" THEN old.description
                     ELSE item.description,
     price |-> item.price, created_at |-> old.created_at,
     updated_at |-> isoformat(now)]

\* updated_item of update_item.
UpdatedItem(old, item_id, item, now) ==
    [id |-> item_id, name |-> item.name, description |-> item.description,
     price |-> item.price, created_at |-> old.created_at,
     updated_at |-> isoformat(now)]

update_item(r) ==
    /\ Waiting(r, "PUT", "/items/{item_id}")
    /\ ItemCreateValid(reqs[r].body)
    /\ LET item_id == reqs[r].item_id
       IN IF item_id \notin DOMAIN items_db
          THEN /\ reqs' = [reqs EXCEPT ![r] =
                            Returned(@, HTTP_404_NOT_FOUND, ItemNotFound)]
               /\ UNCHANGED clock
               /\ StoreUnchanged
          ELSE \E elapsed \in {0, 1} :
                LET now == clock + elapsed
                    updated_item == UpdatedItem(items_db[item_id], item_id,
                                                ItemCreate(reqs[r].body), now)
                IN /\ now <= MaxClock
                   /\ items_db' = [items_db EXCEPT ![item_id] = updated_item]
                   /\ reqs' = [reqs EXCEPT ![r] =
                                JSONResponse(Logged(@, "item_updated"), HTTP_200_OK,
                                   [kind |-> "item",
                                    item |-> ItemResponse(updated_item)])]
                   /\ clock' = now
                   /\ UNCHANGED ITEMS_COUNT
    /\ UNCHANGED uuid_count
    /\ MetricsUnchanged

\* A variant of Del that also drops the keys inserted after item_id.
Del_Truncating(db, item_id) ==
    [k \in {x \in DOMAIN db : InsertionRank(x) < InsertionRank(item_id)} |-> db[k]]

\* del items_db[item_id]
Del(db, item_id) == [k \in (DOMAIN db) \ {item_id} |-> db[k]]

\* A variant of delete_item that answers 204 for an id that is not stored.
delete_item_Idempotent(r) ==
    /\ Waiting(r, "DELETE", "/items/{item_id}")
    /\ LET item_id == reqs[r].item_id
       IN IF item_id \notin DOMAIN items_db
          THEN /\ reqs' = [reqs EXCEPT ![r] =
                            Returned(@, HTTP_204_NO_CONTENT, NoContent)]
               /\ StoreUnchanged
          ELSE /\ items_db' = [k \in (DOMAIN items_db) \ {item_id} |-> items_db[k]]
               /\ ITEMS_COUNT' = ITEMS_COUNT - 1
               /\ reqs' = [reqs EXCEPT ![r] =
                            Returned(Logged(@, "item_deleted"),
                                     HTTP_204_NO_CONTENT, NoContent)]
    /\ UNCHANGED <<clock, uuid_count>>
    /\ MetricsUnchanged

delete_item(r) ==
    /\ Waiting(r, "DELETE", "/items/{item_id}")
    /\ LET item_id == reqs[r].item_id
       IN IF item_id \notin DOMAIN items_db
          THEN /\ reqs' = [reqs EXCEPT ![r] =
                            Returned(@, HTTP_404_NOT_FOUND, ItemNotFound)]
               /\ StoreUnchanged
          ELSE /\ items_db' = Del(items_db, item_id)
               /\ ITEMS_COUNT' = GaugeDec(ITEMS_COUNT)
               /\ reqs' = [reqs EXCEPT ![r] =
                            Returned(Logged(@, "item_deleted"),
                                     HTTP_204_NO_CONTENT, NoContent)]
    /\ UNCHANGED <<clock, uuid_count>>
    /\ MetricsUnchanged

\* ------------------------------------------------------------------ system
\* The state when lifespan yields: the samples stored, ITEMS_COUNT set to
\* len(items_db), no request seen yet.
Init ==
    /\ items_db = [k \in SeedIds |->
                     SeedRecord(sample_items[CHOOSE i \in DOMAIN sample_items :
                                                sample_items[i].id = k],
                                StartupClock, StartupClock)]
    /\ ITEMS_COUNT = Cardinality(DOMAIN items_db)
    /\ REQUEST_COUNT = EmptyBag
    /\ REQUEST_DURATION = EmptyBag
    /\ ERROR_COUNT = EmptyBag
    /\ clock = StartupClock
    /\ uuid_count = 0
    /\ reqs = [r \in Requests |-> IdleRequest]

Next ==
    \E r \in Requests :
        \/ MiddlewarePre(r)
        \/ root(r)
        \/ health(r)
        \/ metrics(r)
        \/ list_items(r)
        \/ get_item(r)
        \/ RequestValidationError(r)
        \/ create_item(r)
        \/ update_item(r)
        \/ delete_item(r)
        \/ MiddlewareSuccess(r)
        \/ MiddlewareFailure(r)

Spec == Init /\ [][Next]_vars

\* ------------------------------------------------------------------ claims
\* The handler of request r runs in this step (call_next returns or raises).
HandlerStep(r) ==
    /\ reqs[r].pc = "call_next"
    /\ reqs'[r].pc \in {"returned", "raised"}

\* Request r has been answered by its handler with this status.
Answered(r, method, status) ==
    /\ reqs[r].pc \in {"returned", "done"}
    /\ ~reqs[r].raised_out
    /\ reqs[r].method = method
    /\ reqs[r].status = status

\* Every record of db other than id's is in db2, unchanged.
OthersKept(db, db2, id) ==
    \A k \in (DOMAIN db) \ {id} : k \in DOMAIN db2 /\ db2[k] = db[k]

\* C1: between requests, and between any two handler steps, the items_total
\* gauge equals the number of records in items_db, which is the length of
\* the GET /items listing.
C1_GaugeEqualsStoreSize ==
    /\ ITEMS_COUNT = Cardinality(DOMAIN items_db)
    /\ ITEMS_COUNT = Len(Values(items_db))

\* C1's case: a create and a delete have both gone through.
C1_Witness ==
    \E r1, r2 \in Requests :
        /\ reqs[r1].method = "POST" /\ "item_created" \in {reqs[r1].log[i] : i \in DOMAIN reqs[r1].log}
        /\ Answered(r2, "DELETE", HTTP_204_NO_CONTENT)

\* C2: a stored item's created_at never changes while it is stored, its
\* updated_at is never before its created_at, and an update never moves
\* updated_at backwards.
C2_CreatedAtKept ==
    /\ [](\A k \in DOMAIN items_db :
            IsoLeq(items_db[k].created_at, items_db[k].updated_at))
    /\ [][\A k \in (DOMAIN items_db) \cap (DOMAIN items_db') :
            /\ items_db'[k].created_at = items_db[k].created_at
            /\ IsoLeq(items_db[k].updated_at, items_db'[k].updated_at)]_vars

\* C2's case: an update has gone through, at a later clock reading than the
\* item's creation.
C2_Witness ==
    \E r \in Requests :
        /\ Answered(r, "PUT", HTTP_200_OK)
        /\ reqs[r].item_id \in DOMAIN items_db
        /\ items_db[reqs[r].item_id].created_at # items_db[reqs[r].item_id].updated_at

\* The answer to a request for an id that is not stored.
IsNotFound(q) ==
    /\ q.pc = "returned"
    /\ q.status = HTTP_404_NOT_FOUND
    /\ q.content = [kind |-> "detail", detail |-> "Item not found"]

\* C3 as stated: GET, PUT and DELETE on an id that is not stored each answer
\* 404 "Item not found" and leave the store and the gauge alone.
C3_Original ==
    [][\A r \in Requests :
        (/\ HandlerStep(r)
         /\ reqs[r].route = "/items/{item_id}"
         /\ reqs[r].item_id \notin DOMAIN items_db)
        => /\ IsNotFound(reqs'[r])
           /\ items_db' = items_db
           /\ ITEMS_COUNT' = ITEMS_COUNT]_vars

\* The body is one ItemCreate accepts: name a string, description a string
\* or absent, price a number.
BodyAccepted(body) ==
    /\ body.name.type = "string"
    /\ body.description.type \in {"absent", "string"}
    /\ body.price.type = "number"

\* C3 (amended): GET, DELETE, and PUT with a body that passes validation, on
\* an id that is not stored, answer 404 "Item not found"; a PUT whose body
\* fails validation answers 422; all of them leave the store and the gauge
\* alone.
C3_NotFound ==
    [][\A r \in Requests :
        (/\ HandlerStep(r)
         /\ reqs[r].route = "/items/{item_id}"
         /\ reqs[r].item_id \notin DOMAIN items_db)
        => /\ IF reqs[r].method = "PUT" /\ ~BodyAccepted(reqs[r].body)
              THEN reqs'[r].pc = "returned"
                   /\ reqs'[r].status = HTTP_422_UNPROCESSABLE
              ELSE IsNotFound(reqs'[r])
           /\ items_db' = items_db
           /\ ITEMS_COUNT' = ITEMS_COUNT]_vars

\* C3's case: a PUT and a DELETE on an id that is not stored were answered.
C3_Witness ==
    \E r1, r2 \in Requests :
        /\ Answered(r1, "PUT", HTTP_404_NOT_FOUND)
        /\ Answered(r2, "DELETE", HTTP_404_NOT_FOUND)
        /\ reqs[r1].item_id \notin DOMAIN items_db
        /\ reqs[r2].item_id \notin DOMAIN items_db

\* C4 as stated: POST /items stores an item only when name is a non-empty
\* string and price a number; every other body is answered 422 with the
\* store and the gauge left alone.
C4_Original ==
    [][\A r \in Requests :
        (/\ HandlerStep(r)
         /\ reqs[r].method = "POST"
         /\ ~(/\ reqs[r].body.name.type = "string"
              /\ reqs[r].body.name.str # ""
              /\ reqs[r].body.price.type = "number"))
        => /\ reqs'[r].pc = "returned"
           /\ reqs'[r].status = HTTP_422_UNPROCESSABLE
           /\ items_db' = items_db
           /\ ITEMS_COUNT' = ITEMS_COUNT]_vars

\* C4 (amended): POST /items stores an item only when name is a string (the
\* empty string included) and price a number; every other body is answered
\* 422 with the store and the gauge left alone.
C4_ValidatedBeforeStore ==
    [][\A r \in Requests :
        (/\ HandlerStep(r)
         /\ reqs[r].method = "POST")
        => IF /\ reqs[r].body.name.type = "string"
              /\ reqs[r].body.price.type = "number"
           THEN /\ reqs'[r].status # HTTP_422_UNPROCESSABLE
                /\ DOMAIN items_db' # DOMAIN items_db
           ELSE /\ reqs'[r].pc = "returned"
                /\ reqs'[r].status = HTTP_422_UNPROCESSABLE
                /\ items_db' = items_db
                /\ ITEMS_COUNT' = ITEMS_COUNT]_vars

\* C4's case: one POST with an empty name was stored, one POST without a
\* price was answered 422.
C4_Witness ==
    \E r1, r2 \in Requests :
        /\ Answered(r1, "POST", HTTP_201_CREATED)
        /\ reqs[r1].body.name = JStr("")
        /\ \E k \in DOMAIN items_db : items_db[k].name = ""
        /\ Answered(r2, "POST", HTTP_422_UNPROCESSABLE)
        /\ reqs[r2].body.price.type = "absent"

\* C5: every response a client gets, success or error, carries the
\* middleware's correlation id in X-Request-ID, and nosniff.
C5_EveryResponseCarriesRequestId ==
    \A r \in Requests :
        reqs[r].pc = "done"
        => /\ reqs[r].request_id # ""
           /\ "X-Request-ID" \in DOMAIN reqs[r].headers
           /\ reqs[r].headers["X-Request-ID"] = reqs[r].request_id
           /\ "X-Content-Type-Options" \in DOMAIN reqs[r].headers
           /\ reqs[r].headers["X-Content-Type-Options"] = "nosniff"

\* The Gauge objects of the module: ITEMS_COUNT is the only one.
Gauges == [items_total |-> ITEMS_COUNT]

\* C6: some gauge is incremented when a request enters the middleware and
\* decremented when it leaves, on either path.
C6_ActiveRequestsGauge ==
    [][\A r \in Requests :
        /\ (reqs[r].pc = "idle" /\ reqs'[r].pc = "call_next")
            => \E g \in DOMAIN Gauges : Gauges'[g] = Gauges[g] + 1
        /\ (reqs[r].pc \in {"returned", "raised"} /\ reqs'[r].pc = "done")
            => \E g \in DOMAIN Gauges : Gauges'[g] = Gauges[g] - 1]_vars

\* C7: every stored record carries the key it is stored under, which is not
\* empty; a POST that stores an item stores it under an id that was not a
\* key, adds that one record and changes no other; a 201 answer returns
\* that id.
C7_FreshUniqueIds ==
    /\ [](\A k \in DOMAIN items_db : k # "" /\ items_db[k].id = k)
    /\ [][\A r \in Requests :
            (/\ HandlerStep(r)
             /\ reqs[r].method = "POST"
             /\ reqs'[r].status # HTTP_422_UNPROCESSABLE)
            => /\ Cardinality((DOMAIN items_db') \ (DOMAIN items_db)) = 1
               /\ OthersKept(items_db, items_db', "")
               /\ (reqs'[r].pc = "returned" /\ reqs'[r].status = HTTP_201_CREATED)
                    => /\ reqs'[r].content.item.id # ""
                       /\ reqs'[r].content.item.id \notin DOMAIN items_db
                       /\ reqs'[r].content.item.id \in DOMAIN items_db'
                       /\ items_db'[reqs'[r].content.item.id] = reqs'[r].content.item]_vars

\* C7's case: a second item has been created and both are stored.
C7_Witness ==
    \E r1, r2 \in Requests :
        /\ r1 # r2
        /\ Answered(r1, "POST", HTTP_201_CREATED)
        /\ Answered(r2, "POST", HTTP_201_CREATED)
        /\ reqs[r1].content.item.id \in DOMAIN items_db
        /\ reqs[r2].content.item.id \in DOMAIN items_db

\* What DELETE on a stored id does: 204, that record gone, the rest kept, the
\* gauge one lower.
DeleteRemovesExactlyOne ==
    \A r \in Requests :
        (/\ HandlerStep(r)
         /\ reqs[r].method = "DELETE"
         /\ reqs[r].item_id \in DOMAIN items_db)
        => /\ reqs'[r].pc = "returned"
           /\ reqs'[r].status = HTTP_204_NO_CONTENT
           /\ DOMAIN items_db' = (DOMAIN items_db) \ {reqs[r].item_id}
           /\ OthersKept(items_db, items_db', reqs[r].item_id)
           /\ ITEMS_COUNT' = ITEMS_COUNT - 1

\* C8 as stated: DELETE on a stored id answers 204 and removes exactly that
\* record; every later GET, PUT or DELETE on that id answers 404.
C8_Original ==
    [][/\ DeleteRemovesExactlyOne
       /\ \A r \in Requests :
            (/\ HandlerStep(r)
             /\ reqs[r].route = "/items/{item_id}"
             /\ reqs[r].item_id \in DeletedIds)
            => IsNotFound(reqs'[r])]_vars

\* C8 (amended): DELETE on a stored id answers 204 and removes exactly that
\* record; the id is never stored again, and every later GET, DELETE, or PUT
\* with a body that passes validation, on that id answers 404 (a PUT whose
\* body fails validation answers 422).
C8_DeletedStaysDeleted ==
    /\ [](DeletedIds \cap (DOMAIN items_db) = {})
    /\ [][/\ DeleteRemovesExactlyOne
          /\ \A r \in Requests :
                (/\ HandlerStep(r)
                 /\ reqs[r].route = "/items/{item_id}"
                 /\ reqs[r].item_id \in DeletedIds)
                => IF reqs[r].method = "PUT" /\ ~BodyAccepted(reqs[r].body)
                   THEN reqs'[r].pc = "returned"
                        /\ reqs'[r].status = HTTP_422_UNPROCESSABLE
                   ELSE IsNotFound(reqs'[r])]_vars

\* C8's case: sample item "1" was deleted and a later GET on it answered 404.
C8_Witness ==
    \E r1, r2 \in Requests :
        /\ Answered(r1, "DELETE", HTTP_204_NO_CONTENT)
        /\ reqs[r1].item_id = "1"
        /\ Answered(r2, "GET", HTTP_404_NOT_FOUND)
        /\ reqs[r2].item_id = "1"
        /\ DOMAIN items_db = {"2", "3"}

\* C9: a PUT answered 200 replaces the record: name, description ("" when
\* the body has none) and price are the body's, id and created_at the old
\* ones; the keys, every other record and the gauge are unchanged.
C9_PutIsFullReplace ==
    [][\A r \in Requests :
        (/\ HandlerStep(r)
         /\ reqs[r].method = "PUT"
         /\ reqs'[r].pc = "returned"
         /\ reqs'[r].status = HTTP_200_OK)
        => LET id == reqs[r].item_id
               body == reqs[r].body
           IN /\ id \in DOMAIN items_db
              /\ DOMAIN items_db' = DOMAIN items_db
              /\ items_db'[id].name = body.name.str
              /\ items_db'[id].description =
                    (IF body.description.type = "absent" THEN ""
                     ELSE body.description.str)
              /\ items_db'[id].price = body.price.num
              /\ items_db'[id].id = items_db[id].id
              /\ items_db'[id].created_at = items_db[id].created_at
              /\ OthersKept(items_db, items_db', id)
              /\ ITEMS_COUNT' = ITEMS_COUNT]_vars

\* C9's case: a PUT without description went through on sample item "1",
\* whose description had been "Gaming laptop".
C9_Witness ==
    \E r \in Requests :
        /\ Answered(r, "PUT", HTTP_200_OK)
        /\ reqs[r].item_id = "1"
        /\ reqs[r].body.description.type = "absent"
        /\ "1" \in DOMAIN items_db
        /\ items_db["1"].description = ""
        /\ items_db["1"].name = "Widget"

\* The lines request r has logged.
Events(r) == {reqs[r].log[i] : i \in DOMAIN reqs[r].log}

\* The requests that went through the middleware's success path with this
\* label, and through its failure path with this error type.
Completed(label) ==
    {r \in Requests : /\ reqs[r].pc = "done"
                      /\ ~reqs[r].raised_out
                      /\ <<reqs[r].method, UrlPath(reqs[r]), reqs[r].status>> = label}
Failed(type) ==
    {r \in Requests : /\ reqs[r].pc = "done"
                      /\ reqs[r].raised_out
                      /\ reqs[r].exc = type}

\* C10: request_start is the first line of every request, before any line
\* of its handler; a request that has left the middleware went through
\* exactly one of the two paths: request_complete logged and REQUEST_COUNT
\* incremented once under its method, path and status, or the error logged,
\* ERROR_COUNT incremented once under the error's type and the error raised
\* on; until then neither counter has counted it.
C10_ExactlyOnePostPath ==
    /\ \A r \in Requests :
        /\ reqs[r].pc = "idle" => reqs[r].log = <<>>
        /\ reqs[r].pc # "idle" =>
            /\ reqs[r].request_id # ""
            /\ reqs[r].log # <<>>
            /\ reqs[r].log[1] = "request_start"
        /\ reqs[r].pc = "call_next" => reqs[r].log = <<"request_start">>
        /\ reqs[r].pc \in {"returned", "raised"} =>
            Events(r) \cap {"request_complete", "error"} = {}
        /\ reqs[r].pc = "done" =>
            \/ /\ reqs[r].log[Len(reqs[r].log)] = "request_complete"
               /\ "error" \notin Events(r)
               /\ ~reqs[r].raised_out
               /\ reqs[r].exc = ""
               /\ "X-Request-ID" \in DOMAIN reqs[r].headers
            \/ /\ reqs[r].log[Len(reqs[r].log)] = "error"
               /\ "request_complete" \notin Events(r)
               /\ reqs[r].raised_out
               /\ reqs[r].exc # ""
    /\ \A label \in (DOMAIN REQUEST_COUNT)
            \cup {<<reqs[r].method, UrlPath(reqs[r]), reqs[r].status>> : r \in Requests} :
        CopiesIn(label, REQUEST_COUNT) = Cardinality(Completed(label))
    /\ \A type \in (DOMAIN ERROR_COUNT) \cup {reqs[r].exc : r \in Requests} :
        CopiesIn(type, ERROR_COUNT) = Cardinality(Failed(type))

\* C10's case: one request has left through the success path and one
\* through the failure path.
C10_Witness ==
    \E r1, r2 \in Requests :
        /\ reqs[r1].pc = "done" /\ ~reqs[r1].raised_out
        /\ reqs[r2].pc = "done" /\ reqs[r2].raised_out
        /\ BagCardinality(REQUEST_COUNT) = 1
        /\ BagCardinality(ERROR_COUNT) = 1
====
